---- MODULE Spec2Model ----
(***************************************************************************)
(* Model of the finance_tracker canister (src/src/index.ts): one stable    *)
(* map of financial records, four update calls and the query calls over    *)
(* it.  Every exported function is a pure operator from the map (and the   *)
(* call's arguments) to its Result and, for update calls, the new map; the *)
(* action of the same name applies it to an idle canister and records the  *)
(* call and its Result in `call`; Reply returns the Result to the caller   *)
(* and leaves the canister idle for the next call (calls never overlap).   *)
(*                                                                         *)
(* Abstractions: amounts are float64 in the source and small integers      *)
(* here (no claim depends on rounding); uuidv4() is modelled by its        *)
(* contract, an identifier that no stored record carries; ic.time() is a   *)
(* non-decreasing clock; StableBTreeMap.insert is modelled within the      *)
(* map's key and value size limits, where it cannot fail.                  *)
(***************************************************************************)
EXTENDS Integers, Sequences, FiniteSets, TLC

VARIABLES store, now, call

vars == <<store, now, call>>

\* ---------------------------------------------------------------- bounds
MaxIds == 2
MaxTime == 2
MaxAmount == 2

\* ------------------------------------------------------- value universes
\* The empty string passed as an id (the only falsy string).
EmptyId == 0
Ids == 1..MaxIds
IdArgs == Ids \cup {EmptyId}

Categories == {"", "food", "groceries"}

\* azle's Opt<T>: the object {None: null} or {Some: value}.
OptNone == [tag |-> "None"]
OptSome(v) == [tag |-> "Some", val |-> v]

NotesValues == {OptNone, OptSome("")}

Amounts == (-MaxAmount)..MaxAmount

FinancialRecordPayload ==
    [amount : Amounts, category : Categories, notes : NotesValues]

\* ------------------------------------------------- JavaScript truthiness
\* !x on a number is true for 0 (and NaN), on a string for "", and never
\* on an object.
TruthyNumber(n) == n # 0
TruthyString(s) == s # ""
TruthyObject(o) == TRUE
\* x !== null, for an object x.
NotNullObject(o) == TRUE

Abs(n) == IF n < 0 THEN -n ELSE n

\* ------------------------------------------------------------- Result<T>
Ok(v) == [ok |-> TRUE, val |-> v]
Err(m) == [ok |-> FALSE, err |-> m]

\* --------------------------------------------------------- StableBTreeMap
\* values(): the stored records in ascending key order.  The handlers'
\* values().filter(test) is SelectSeq(Values(s), test).
MinKey(ks) == CHOOSE k \in ks : \A j \in ks : k <= j

RECURSIVE ValuesFrom(_, _)
ValuesFrom(s, ks) ==
    IF ks = {} THEN <<>>
    ELSE LET k == MinKey(ks) IN <<s[k]>> \o ValuesFrom(s, ks \ {k})

Values(s) == ValuesFrom(s, DOMAIN s)

\* insert(key, value): add or overwrite.
Insert(s, k, v) == [j \in (DOMAIN s) \cup {k} |-> IF j = k THEN v ELSE s[j]]

\* remove(key) on a present key.
Remove(s, k) == [j \in (DOMAIN s) \ {k} |-> s[j]]

\* ------------------------------------------------------------ update calls
\* {...base, ...payload}: the payload's three fields overwrite the base's.
SpreadPayload(base, payload) ==
    [base EXCEPT !.amount = payload.amount,
                 !.category = payload.category,
                 !.notes = payload.notes]

\* !payload.amount || !payload.category
PayloadRejected(payload) ==
    ~TruthyNumber(payload.amount) \/ ~TruthyString(payload.category)

\* Mutant of addFinancialRecord: the new record is stamped as updated.
addFinancialRecord_StampsUpdatedAt(s, t, newId, payload) ==
    IF PayloadRejected(payload)
    THEN [res |-> Err("amount and category are required"), store |-> s]
    ELSE LET record == SpreadPayload(
                 [id |-> newId, createdAt |-> t, updatedAt |-> OptSome(t),
                  amount |-> 0, category |-> "", notes |-> OptNone],
                 payload)
         IN [res |-> Ok(record), store |-> Insert(s, record.id, record)]

\* Mutant of addFinancialRecord: the record is inserted before the payload
\* is validated.
addFinancialRecord_InsertsBeforeValidation(s, t, newId, payload) ==
    LET record == SpreadPayload(
            [id |-> newId, createdAt |-> t, updatedAt |-> OptNone,
             amount |-> 0, category |-> "", notes |-> OptNone],
            payload)
        inserted == Insert(s, record.id, record)
    IN IF PayloadRejected(payload)
       THEN [res |-> Err("amount and category are required"), store |-> inserted]
       ELSE [res |-> Ok(record), store |-> inserted]

\* newId is the value of uuidv4(), t the value of ic.time().
addFinancialRecord(s, t, newId, payload) ==
    IF PayloadRejected(payload)
    THEN [res |-> Err("amount and category are required"), store |-> s]
    ELSE LET record == SpreadPayload(
                 [id |-> newId, createdAt |-> t, updatedAt |-> OptNone,
                  amount |-> 0, category |-> "", notes |-> OptNone],
                 payload)
         IN [res |-> Ok(record), store |-> Insert(s, record.id, record)]

\* Mutant of updateFinancialRecord: {...payload, ...record}, the stored
\* fields win over the payload's.
updateFinancialRecord_RecordWins(s, t, id, payload) ==
    IF PayloadRejected(payload)
    THEN [res |-> Err("amount and category are required"), store |-> s]
    ELSE IF id \in DOMAIN s
    THEN LET record == s[id]
             updatedRecord == [record EXCEPT !.updatedAt = OptSome(t)]
         IN [res |-> Ok(updatedRecord),
             store |-> Insert(s, record.id, updatedRecord)]
    ELSE [res |-> Err("couldn't update a financial record with id=. record not found"),
          store |-> s]

\* Mutant of updateFinancialRecord: the id is looked up before the payload
\* is validated.
updateFinancialRecord_LookupFirst(s, t, id, payload) ==
    IF id \notin DOMAIN s
    THEN [res |-> Err("couldn't update a financial record with id=. record not found"),
          store |-> s]
    ELSE IF PayloadRejected(payload)
    THEN [res |-> Err("amount and category are required"), store |-> s]
    ELSE LET record == s[id]
             updatedRecord ==
                 [SpreadPayload(record, payload) EXCEPT !.updatedAt = OptSome(t)]
         IN [res |-> Ok(updatedRecord),
             store |-> Insert(s, record.id, updatedRecord)]

\* Mutant of updateFinancialRecord: the payload is not validated.
updateFinancialRecord_NoValidation(s, t, id, payload) ==
    IF id \notin DOMAIN s
    THEN [res |-> Err("couldn't update a financial record with id=. record not found"),
          store |-> s]
    ELSE LET record == s[id]
             updatedRecord ==
                 [SpreadPayload(record, payload) EXCEPT !.updatedAt = OptSome(t)]
         IN [res |-> Ok(updatedRecord),
             store |-> Insert(s, record.id, updatedRecord)]

updateFinancialRecord(s, t, id, payload) ==
    IF PayloadRejected(payload)
    THEN [res |-> Err("amount and category are required"), store |-> s]
    ELSE IF id \in DOMAIN s
    THEN LET record == s[id]
             updatedRecord ==
                 [SpreadPayload(record, payload) EXCEPT !.updatedAt = OptSome(t)]
         IN [res |-> Ok(updatedRecord),
             store |-> Insert(s, record.id, updatedRecord)]
    ELSE [res |-> Err("couldn't update a financial record with id=. record not found"),
          store |-> s]

\* records.forEach(record => { ...; insert(record.id, record) })
RECURSIVE InsertAll(_, _, _)
InsertAll(s, records, i) ==
    IF i > Len(records) THEN s
    ELSE InsertAll(Insert(s, records[i].id, records[i]), records, i + 1)

\* Mutant of updateExpenseCategory: the renamed records are returned but
\* never written back.
updateExpenseCategory_NoWriteBack(s, oldCategory, newCategory) ==
    IF ~TruthyString(oldCategory) \/ ~TruthyString(newCategory)
    THEN [res |-> Err("oldCategory and newCategory are required."), store |-> s]
    ELSE LET HasOld(record) == record.category = oldCategory
             records == SelectSeq(Values(s), HasOld)
         IN IF Len(records) = 0
            THEN [res |-> Err("No financial records found for category: ."),
                  store |-> s]
            ELSE LET renamed == [i \in 1..Len(records) |->
                                    [records[i] EXCEPT !.category = newCategory]]
                 IN [res |-> Ok(renamed), store |-> s]

\* Mutant of updateExpenseCategory: the renamed records are rebuilt without
\* their updatedAt.
updateExpenseCategory_DropsUpdatedAt(s, oldCategory, newCategory) ==
    IF ~TruthyString(oldCategory) \/ ~TruthyString(newCategory)
    THEN [res |-> Err("oldCategory and newCategory are required."), store |-> s]
    ELSE LET HasOld(record) == record.category = oldCategory
             records == SelectSeq(Values(s), HasOld)
         IN IF Len(records) = 0
            THEN [res |-> Err("No financial records found for category: ."),
                  store |-> s]
            ELSE LET renamed == [i \in 1..Len(records) |->
                                    [records[i] EXCEPT !.category = newCategory,
                                                       !.updatedAt = OptNone]]
                 IN [res |-> Ok(renamed), store |-> InsertAll(s, renamed, 1)]

updateExpenseCategory(s, oldCategory, newCategory) ==
    IF ~TruthyString(oldCategory) \/ ~TruthyString(newCategory)
    THEN [res |-> Err("oldCategory and newCategory are required."), store |-> s]
    ELSE LET HasOld(record) == record.category = oldCategory
             records == SelectSeq(Values(s), HasOld)
         IN IF Len(records) = 0
            THEN [res |-> Err("No financial records found for category: ."),
                  store |-> s]
            ELSE LET renamed == [i \in 1..Len(records) |->
                                    [records[i] EXCEPT !.category = newCategory]]
                 IN [res |-> Ok(renamed), store |-> InsertAll(s, renamed, 1)]

\* Mutant of deleteFinancialRecord: get(id) in place of remove(id).
deleteFinancialRecord_KeepsRecord(s, id) ==
    IF ~(id # EmptyId)
    THEN [res |-> Err("id is required"), store |-> s]
    ELSE IF id \in DOMAIN s
    THEN [res |-> Ok(s[id]), store |-> s]
    ELSE [res |-> Err("couldn't delete a financial record with id=. record not found."),
          store |-> s]

deleteFinancialRecord(s, id) ==
    IF ~(id # EmptyId)
    THEN [res |-> Err("id is required"), store |-> s]
    ELSE IF id \in DOMAIN s
    THEN [res |-> Ok(s[id]), store |-> Remove(s, id)]
    ELSE [res |-> Err("couldn't delete a financial record with id=. record not found."),
          store |-> s]

\* ------------------------------------------------------------- query calls
\* Mutant of getFinancialRecords: the records come in descending key order.
getFinancialRecords_Descending(s) ==
    LET records == Values(s)
    IN IF Len(records) = 0
       THEN Err("No financial records found.")
       ELSE Ok([i \in 1..Len(records) |-> records[Len(records) + 1 - i]])

getFinancialRecords(s) ==
    LET records == Values(s)
    IN IF Len(records) = 0
       THEN Err("No financial records found.")
       ELSE Ok(records)

getFinancialRecord(s, id) ==
    IF ~(id # EmptyId)
    THEN Err("id is required")
    ELSE IF id \in DOMAIN s
    THEN Ok(s[id])
    ELSE Err("couldn't find a financial record with id=")

getFinancialRecordsByCategory(s, category) ==
    IF ~TruthyString(category)
    THEN Err("Category is required.")
    ELSE LET InCategory(record) == record.category = category
             filteredRecords == SelectSeq(Values(s), InCategory)
         IN IF Len(filteredRecords) = 0
            THEN Err("No financial records found for category: .")
            ELSE Ok(filteredRecords)

\* Mutant of getFinancialRecordsByDateRange: the end bound is exclusive.
getFinancialRecordsByDateRange_ExclusiveEnd(s, startDate, endDate) ==
    IF ~TruthyNumber(startDate) \/ ~TruthyNumber(endDate)
    THEN Err("startDate and endDate are required.")
    ELSE IF startDate > endDate
    THEN Err("startDate must not be later than endDate.")
    ELSE LET InRange(record) ==
                 record.createdAt >= startDate /\ record.createdAt < endDate
             filteredRecords == SelectSeq(Values(s), InRange)
         IN IF Len(filteredRecords) = 0
            THEN Err("No financial records found within the specified date range.")
            ELSE Ok(filteredRecords)

getFinancialRecordsByDateRange(s, startDate, endDate) ==
    IF ~TruthyNumber(startDate) \/ ~TruthyNumber(endDate)
    THEN Err("startDate and endDate are required.")
    ELSE IF startDate > endDate
    THEN Err("startDate must not be later than endDate.")
    ELSE LET InRange(record) ==
                 record.createdAt >= startDate /\ record.createdAt <= endDate
             filteredRecords == SelectSeq(Values(s), InRange)
         IN IF Len(filteredRecords) = 0
            THEN Err("No financial records found within the specified date range.")
            ELSE Ok(filteredRecords)

\* values().forEach(record => amount > 0 ? totalIncome += : totalExpense +=)
RECURSIVE SummaryLoop(_, _, _)
SummaryLoop(records, i, totals) ==
    IF i > Len(records) THEN totals
    ELSE SummaryLoop(records, i + 1,
            IF records[i].amount > 0
            THEN [totals EXCEPT !.totalIncome = @ + records[i].amount]
            ELSE [totals EXCEPT !.totalExpense = @ + records[i].amount])

\* Mutant of getFinancialSummary: netFlow subtracts the (negative) expenses.
getFinancialSummary_NetFlowDifference(s) ==
    LET totals == SummaryLoop(Values(s), 1, [totalIncome |-> 0, totalExpense |-> 0])
    IN IF totals.totalIncome = 0 /\ totals.totalExpense = 0
       THEN Err("No financial records available to summarize.")
       ELSE Ok([totalIncome |-> totals.totalIncome,
                totalExpense |-> totals.totalExpense,
                netFlow |-> totals.totalIncome - totals.totalExpense])

\* Mutant of getFinancialSummary: a zero net flow is nothing to summarize.
getFinancialSummary_FailsOnZeroNetFlow(s) ==
    LET totals == SummaryLoop(Values(s), 1, [totalIncome |-> 0, totalExpense |-> 0])
    IN IF totals.totalIncome + totals.totalExpense = 0
       THEN Err("No financial records available to summarize.")
       ELSE Ok([totalIncome |-> totals.totalIncome,
                totalExpense |-> totals.totalExpense,
                netFlow |-> totals.totalIncome + totals.totalExpense])

getFinancialSummary(s) ==
    LET totals == SummaryLoop(Values(s), 1, [totalIncome |-> 0, totalExpense |-> 0])
    IN IF totals.totalIncome = 0 /\ totals.totalExpense = 0
       THEN Err("No financial records available to summarize.")
       ELSE Ok([totalIncome |-> totals.totalIncome,
                totalExpense |-> totals.totalExpense,
                netFlow |-> totals.totalIncome + totals.totalExpense])

\* Mutant of getExpensesGreaterThan: >= in place of >.
getExpensesGreaterThan_Inclusive(s, amount) ==
    IF ~TruthyNumber(amount) \/ amount <= 0
    THEN Err("Amount must be a positive number.")
    ELSE LET Matches(record) == record.amount < 0 /\ Abs(record.amount) >= amount
             filteredRecords == SelectSeq(Values(s), Matches)
         IN IF Len(filteredRecords) = 0
            THEN Err("No expenses found greater than the specified amount.")
            ELSE Ok(filteredRecords)

getExpensesGreaterThan(s, amount) ==
    IF ~TruthyNumber(amount) \/ amount <= 0
    THEN Err("Amount must be a positive number.")
    ELSE LET Matches(record) == record.amount < 0 /\ Abs(record.amount) > amount
             filteredRecords == SelectSeq(Values(s), Matches)
         IN IF Len(filteredRecords) = 0
            THEN Err("No expenses found greater than the specified amount.")
            ELSE Ok(filteredRecords)

getIncomesLessThan(s, amount) ==
    IF ~TruthyNumber(amount) \/ amount <= 0
    THEN Err("Amount must be a positive number.")
    ELSE LET Matches(record) == record.amount > 0 /\ record.amount < amount
             filteredRecords == SelectSeq(Values(s), Matches)
         IN IF Len(filteredRecords) = 0
            THEN Err("No incomes found less than the specified amount.")
            ELSE Ok(filteredRecords)

\* record.notes && record.notes !== null
getFinancialRecordsWithNotes(s) ==
    LET Matches(record) == TruthyObject(record.notes) /\ NotNullObject(record.notes)
        filteredRecords == SelectSeq(Values(s), Matches)
    IN IF Len(filteredRecords) = 0
       THEN Err("No financial records with notes found.")
       ELSE Ok(filteredRecords)

\* !record.notes || record.notes === null
getFinancialRecordsWithoutNotes(s) ==
    LET Matches(record) == ~TruthyObject(record.notes) \/ ~NotNullObject(record.notes)
        filteredRecords == SelectSeq(Values(s), Matches)
    IN IF Len(filteredRecords) = 0
       THEN Err("No financial records without notes found.")
       ELSE Ok(filteredRecords)

\* ------------------------------------------------- JavaScript Number, Date
\* A Number that may be NaN.
NaN == [nan |-> TRUE]
Num(k) == [nan |-> FALSE, n |-> k]
NumAdd(a, b) == IF a.nan \/ b.nan THEN NaN ELSE Num(a.n + b.n)
NumSub(a, b) == IF a.nan \/ b.nan THEN NaN ELSE Num(a.n - b.n)
NumMul(a, b) == IF a.nan \/ b.nan THEN NaN ELSE Num(a.n * b.n)
\* x > 0 is false for NaN.
NumPositive(x) == ~x.nan /\ x.n > 0

\* a / b for b > 0, kept as an exact fraction; a plain number is a / 1.
Quotient(a, b) == [num |-> a, den |-> b]

\* The clock counts calendar months: tick 1 is 2024-01-15, tick 2 is
\* 2024-02-15, and so on.  Number(createdAt) is the nat64 of ic.time(),
\* nanoseconds since 1970, here in units of 10^14 ns (rounded).
NanosAtTickZero == 17026
NanosPerTick == 26
NumberOfTime(t) == NanosAtTickZero + t * NanosPerTick

\* new Date(value) takes value as milliseconds since 1970 and is an Invalid
\* Date beyond 8.64 * 10^15 ms; value is given in units of 10^14.  A valid
\* date is kept as whole (average-length) months since 1970-01.
MaxDateValue == 86
DateOf(value) ==
    IF value > MaxDateValue
    THEN [valid |-> FALSE]
    ELSE [valid |-> TRUE, months |-> (value * 380265) \div 10]

getFullYear(date) == IF date.valid THEN Num(1970 + date.months \div 12) ELSE NaN
getMonth(date) == IF date.valid THEN Num(date.months % 12) ELSE NaN

\* Math.min(...xs), Math.max(...xs) over a non-empty sequence.
MathMin(xs) == CHOOSE x \in {xs[i] : i \in 1..Len(xs)} :
                   \A i \in 1..Len(xs) : x <= xs[i]
MathMax(xs) == CHOOSE x \in {xs[i] : i \in 1..Len(xs)} :
                   \A i \in 1..Len(xs) : x >= xs[i]

\* records.reduce((sum, record) => sum + Math.abs(record.amount), 0)
RECURSIVE ReduceAbs(_, _, _)
ReduceAbs(records, i, sum) ==
    IF i > Len(records) THEN sum
    ELSE ReduceAbs(records, i + 1, sum + Abs(records[i].amount))

\* records.reduce((sum, record) => sum + record.amount, 0)
RECURSIVE ReduceAmount(_, _, _)
ReduceAmount(records, i, sum) ==
    IF i > Len(records) THEN sum
    ELSE ReduceAmount(records, i + 1, sum + records[i].amount)

\* (latest.getFullYear() - earliest.getFullYear()) * 12
\*     + (latest.getMonth() - earliest.getMonth() + 1)
MonthDiff(records) ==
    LET numbers == [i \in 1..Len(records) |-> NumberOfTime(records[i].createdAt)]
        earliestDate == DateOf(MathMin(numbers))
        latestDate == DateOf(MathMax(numbers))
    IN NumAdd(NumMul(NumSub(getFullYear(latestDate), getFullYear(earliestDate)),
                     Num(12)),
              NumAdd(NumSub(getMonth(latestDate), getMonth(earliestDate)), Num(1)))

getAverageMonthlyExpenses(s) ==
    LET IsExpense(record) == record.amount < 0
        expenses == SelectSeq(Values(s), IsExpense)
    IN IF Len(expenses) = 0
       THEN Err("No expense records found.")
       ELSE LET totalExpenses == ReduceAbs(expenses, 1, 0)
                monthDiff == MonthDiff(expenses)
            IN Ok(IF NumPositive(monthDiff)
                  THEN Quotient(totalExpenses, monthDiff.n)
                  ELSE Quotient(totalExpenses, 1))

getAverageMonthlyIncome(s) ==
    LET IsIncome(record) == record.amount > 0
        incomes == SelectSeq(Values(s), IsIncome)
    IN IF Len(incomes) = 0
       THEN Err("No income records found.")
       ELSE LET totalIncome == ReduceAmount(incomes, 1, 0)
                monthDiff == MonthDiff(incomes)
            IN Ok(IF NumPositive(monthDiff)
                  THEN Quotient(totalIncome, monthDiff.n)
                  ELSE Quotient(totalIncome, 1))

\* --------------------------------------------------------- export, forecast
Formats == {"", "json", "JSON", "Json", "csv"}

\* String.prototype.toLowerCase on the formats above.
ToLowerCase(format) ==
    CASE format = "JSON" -> "json"
      [] format = "Json" -> "json"
      [] OTHER -> format

\* The replacer of JSON.stringify: a bigint becomes its decimal string.
ReplaceBigint(value) == ToString(value)

\* JSON.stringify(data, replacer), as the structure the text denotes.
Stringify(data) ==
    [i \in 1..Len(data) |->
        [id |-> data[i].id,
         amount |-> data[i].amount,
         category |-> data[i].category,
         createdAt |-> ReplaceBigint(data[i].createdAt),
         updatedAt |-> IF data[i].updatedAt.tag = "Some"
                       THEN OptSome(ReplaceBigint(data[i].updatedAt.val))
                       ELSE OptNone,
         notes |-> data[i].notes]]

\* Mutant of exportFinancialData: the store is read before the format is
\* validated.
exportFinancialData_StoreFirst(s, format) ==
    LET data == Values(s)
    IN IF Len(data) = 0
       THEN Err("No financial data available to export.")
       ELSE IF ~TruthyString(format)
       THEN Err("Format is required.")
       ELSE IF ToLowerCase(format) # "json"
       THEN Err("Unsupported format. Currently, only JSON export is available.")
       ELSE Ok(Stringify(data))

exportFinancialData(s, format) ==
    IF ~TruthyString(format)
    THEN Err("Format is required.")
    ELSE LET normalizedFormat == ToLowerCase(format)
         IN IF normalizedFormat # "json"
            THEN Err("Unsupported format. Currently, only JSON export is available.")
            ELSE LET data == Values(s)
                 IN IF Len(data) = 0
                    THEN Err("No financial data available to export.")
                    ELSE LET jsonData == Stringify(data)
                         IN IF Len(jsonData) = 0
                            THEN Err("Failed to serialize financial data.")
                            ELSE Ok(jsonData)

MonthsAheadArgs == {-1, 0, 1, 2}

\* (totalExpenses / expenses.length) * monthsAhead, as an exact fraction.
forecastFutureExpenses(s, monthsAhead) ==
    IF ~TruthyNumber(monthsAhead)
    THEN Err("Invalid input: monthsAhead is required and must be a number.")
    ELSE IF monthsAhead <= 0
    THEN Err("Invalid input: monthsAhead must be greater than 0.")
    ELSE LET IsExpense(record) == record.amount < 0
             expenses == SelectSeq(Values(s), IsExpense)
         IN IF Len(expenses) = 0
            THEN Err("Insufficient data: No expense records found.")
            ELSE LET totalExpenses == ReduceAbs(expenses, 1, 0)
                 IN Ok(Quotient(totalExpenses * monthsAhead, Len(expenses)))

\* ------------------------------------------------------------ state machine
Idle == [op |-> "idle"]

\* ic.time() is positive (nanoseconds since 1970) and never decreases.
Init ==
    /\ store = << >>
    /\ now = 1
    /\ call = Idle

\* Time passes between two calls.
Tick ==
    /\ call = Idle
    /\ now < MaxTime
    /\ now' = now + 1
    /\ UNCHANGED <<store, call>>

\* The Result of the executed call goes back to the caller.
Reply ==
    /\ call # Idle
    /\ call' = Idle
    /\ UNCHANGED <<store, now>>

AddFinancialRecord ==
    /\ call = Idle
    /\ \E payload \in FinancialRecordPayload, newId \in Ids :
        /\ PayloadRejected(payload) \/ newId \notin DOMAIN store
        /\ LET r == addFinancialRecord(store, now, newId, payload)
           IN /\ store' = r.store
              /\ call' = [op |-> "addFinancialRecord", payload |-> payload,
                          res |-> r.res]
    /\ UNCHANGED now

UpdateFinancialRecord ==
    /\ call = Idle
    /\ \E id \in IdArgs, payload \in FinancialRecordPayload :
        LET r == updateFinancialRecord(store, now, id, payload)
        IN /\ store' = r.store
           /\ call' = [op |-> "updateFinancialRecord", id |-> id,
                       payload |-> payload, res |-> r.res]
    /\ UNCHANGED now

UpdateExpenseCategory ==
    /\ call = Idle
    /\ \E oldCategory \in Categories, newCategory \in Categories :
        LET r == updateExpenseCategory(store, oldCategory, newCategory)
        IN /\ store' = r.store
           /\ call' = [op |-> "updateExpenseCategory",
                       oldCategory |-> oldCategory,
                       newCategory |-> newCategory, res |-> r.res]
    /\ UNCHANGED now

DeleteFinancialRecord ==
    /\ call = Idle
    /\ \E id \in IdArgs :
        LET r == deleteFinancialRecord(store, id)
        IN /\ store' = r.store
           /\ call' = [op |-> "deleteFinancialRecord", id |-> id, res |-> r.res]
    /\ UNCHANGED now

GetFinancialRecords ==
    /\ call = Idle
    /\ call' = [op |-> "getFinancialRecords", res |-> getFinancialRecords(store)]
    /\ UNCHANGED <<store, now>>

GetFinancialRecord ==
    /\ call = Idle
    /\ \E id \in IdArgs :
        call' = [op |-> "getFinancialRecord", id |-> id,
                 res |-> getFinancialRecord(store, id)]
    /\ UNCHANGED <<store, now>>

GetFinancialRecordsByCategory ==
    /\ call = Idle
    /\ \E category \in Categories :
        call' = [op |-> "getFinancialRecordsByCategory", category |-> category,
                 res |-> getFinancialRecordsByCategory(store, category)]
    /\ UNCHANGED <<store, now>>

GetFinancialRecordsByDateRange ==
    /\ call = Idle
    /\ \E startDate \in 0..MaxTime, endDate \in 0..MaxTime :
        call' = [op |-> "getFinancialRecordsByDateRange",
                 startDate |-> startDate, endDate |-> endDate,
                 res |-> getFinancialRecordsByDateRange(store, startDate, endDate)]
    /\ UNCHANGED <<store, now>>

GetFinancialSummary ==
    /\ call = Idle
    /\ call' = [op |-> "getFinancialSummary", res |-> getFinancialSummary(store)]
    /\ UNCHANGED <<store, now>>

GetExpensesGreaterThan ==
    /\ call = Idle
    /\ \E amount \in Amounts :
        call' = [op |-> "getExpensesGreaterThan", amount |-> amount,
                 res |-> getExpensesGreaterThan(store, amount)]
    /\ UNCHANGED <<store, now>>

GetIncomesLessThan ==
    /\ call = Idle
    /\ \E amount \in Amounts :
        call' = [op |-> "getIncomesLessThan", amount |-> amount,
                 res |-> getIncomesLessThan(store, amount)]
    /\ UNCHANGED <<store, now>>

GetFinancialRecordsWithNotes ==
    /\ call = Idle
    /\ call' = [op |-> "getFinancialRecordsWithNotes",
                res |-> getFinancialRecordsWithNotes(store)]
    /\ UNCHANGED <<store, now>>

GetFinancialRecordsWithoutNotes ==
    /\ call = Idle
    /\ call' = [op |-> "getFinancialRecordsWithoutNotes",
                res |-> getFinancialRecordsWithoutNotes(store)]
    /\ UNCHANGED <<store, now>>

GetAverageMonthlyExpenses ==
    /\ call = Idle
    /\ call' = [op |-> "getAverageMonthlyExpenses",
                res |-> getAverageMonthlyExpenses(store)]
    /\ UNCHANGED <<store, now>>

GetAverageMonthlyIncome ==
    /\ call = Idle
    /\ call' = [op |-> "getAverageMonthlyIncome",
                res |-> getAverageMonthlyIncome(store)]
    /\ UNCHANGED <<store, now>>

ExportFinancialData ==
    /\ call = Idle
    /\ \E format \in Formats :
        call' = [op |-> "exportFinancialData", format |-> format,
                 res |-> exportFinancialData(store, format)]
    /\ UNCHANGED <<store, now>>

ForecastFutureExpenses ==
    /\ call = Idle
    /\ \E monthsAhead \in MonthsAheadArgs :
        call' = [op |-> "forecastFutureExpenses", monthsAhead |-> monthsAhead,
                 res |-> forecastFutureExpenses(store, monthsAhead)]
    /\ UNCHANGED <<store, now>>

Next ==
    \/ Tick
    \/ Reply
    \/ AddFinancialRecord
    \/ UpdateFinancialRecord
    \/ UpdateExpenseCategory
    \/ DeleteFinancialRecord
    \/ GetFinancialRecords
    \/ GetFinancialRecord
    \/ GetFinancialRecordsByCategory
    \/ GetFinancialRecordsByDateRange
    \/ GetFinancialSummary
    \/ GetExpensesGreaterThan
    \/ GetIncomesLessThan
    \/ GetFinancialRecordsWithNotes
    \/ GetFinancialRecordsWithoutNotes
    \/ GetAverageMonthlyExpenses
    \/ GetAverageMonthlyIncome
    \/ ExportFinancialData
    \/ ForecastFutureExpenses

Spec == Init /\ [][Next]_vars

\* ------------------------------------------------------- error taxonomy
\* The Err messages of index.ts (template parameters left out), grouped by
\* the kind of failure they report.
ValidationErrors ==
    {"id is required",
     "amount and category are required",
     "oldCategory and newCategory are required.",
     "Category is required.",
     "startDate and endDate are required.",
     "startDate must not be later than endDate.",
     "Amount must be a positive number.",
     "Format is required.",
     "Unsupported format. Currently, only JSON export is available.",
     "Invalid input: monthsAhead is required and must be a number.",
     "Invalid input: monthsAhead must be greater than 0."}

NotFoundErrors ==
    {"No financial records found.",
     "couldn't find a financial record with id=",
     "couldn't update a financial record with id=. record not found",
     "couldn't delete a financial record with id=. record not found.",
     "No financial records found for category: .",
     "No financial records found within the specified date range.",
     "No financial records available to summarize.",
     "No expenses found greater than the specified amount.",
     "No incomes found less than the specified amount.",
     "No financial records with notes found.",
     "No financial records without notes found.",
     "No expense records found.",
     "No income records found.",
     "No financial data available to export.",
     "Insufficient data: No expense records found."}

IsValidationError(res) == ~res.ok /\ res.err \in ValidationErrors
IsNotFound(res) == ~res.ok /\ res.err \in NotFoundErrors

\* ------------------------------------------------ vocabulary of the claims
ValidPayload(payload) == payload.amount # 0 /\ payload.category # ""

StoredRecords(s) == {s[id] : id \in DOMAIN s}

Range(seq) == {seq[i] : i \in 1..Len(seq)}

\* The sequence lists each record of the set once and nothing else.
ListsExactly(seq, records) ==
    Range(seq) = records /\ Len(seq) = Cardinality(records)

\* Sum over stored records (two records may carry the same amount, so the
\* sum runs over ids).
RECURSIVE SumOver(_, _)
SumOver(s, ids) ==
    IF ids = {} THEN 0
    ELSE LET id == CHOOSE x \in ids : TRUE
         IN s[id].amount + SumOver(s, ids \ {id})

\* Every record of s is in s2 under the same id, unchanged.
KeepsAll(s, s2) ==
    \A id \in DOMAIN s : id \in DOMAIN s2 /\ s2[id] = s[id]

\* The records of s other than id are exactly the records of s2 other than
\* id, unchanged.
SameExcept(s, s2, id) ==
    /\ (DOMAIN s) \ {id} = (DOMAIN s2) \ {id}
    /\ \A j \in (DOMAIN s) \ {id} : s2[j] = s[j]

\* ------------------------------------------------------------------ claims

\* C1: a Create with a valid payload (amount non-zero, category non-empty)
\* succeeds; the returned record has an id that no stored record had, its
\* createdAt is the current clock value, its updatedAt is absent and its
\* amount, category and notes are the payload's; afterwards the store holds
\* the previous records, unchanged, plus the new one and nothing else.
C1_CreateAddsFreshRecord ==
    [][(call'.op = "addFinancialRecord" /\ ValidPayload(call'.payload)) =>
        /\ call'.res.ok
        /\ LET record == call'.res.val
           IN /\ record.id \notin DOMAIN store
              /\ record.createdAt = now
              /\ record.updatedAt = OptNone
              /\ record.amount = call'.payload.amount
              /\ record.category = call'.payload.category
              /\ record.notes = call'.payload.notes
              /\ DOMAIN record =
                    {"id", "amount", "category", "notes", "createdAt", "updatedAt"}
              /\ DOMAIN store' = (DOMAIN store) \cup {record.id}
              /\ store'[record.id] = record
              /\ KeepsAll(store, store')]_vars

\* A Create has just added a record to a store that already held one.
C1_Witness ==
    /\ call.op = "addFinancialRecord"
    /\ call.res.ok
    /\ Cardinality(DOMAIN store) = 2
    /\ call.res.val.id \in DOMAIN store

\* C2: an Update of a stored record with a valid payload succeeds, and a
\* successful Update(id, payload) keeps the record's id and createdAt, sets
\* amount, category and notes to the payload's, sets updatedAt to a present
\* value that is >= createdAt and >= the previous updatedAt (if any), and
\* leaves every other record unchanged.
C2_UpdateOverwritesPayloadFields ==
    [][(call'.op = "updateFinancialRecord") =>
        /\ (call'.id \in DOMAIN store /\ ValidPayload(call'.payload)) => call'.res.ok
        /\ call'.res.ok =>
            /\ call'.id \in DOMAIN store
            /\ call'.id \in DOMAIN store'
            /\ LET old == store[call'.id]
                   new == store'[call'.id]
               IN /\ call'.res.val = new
                  /\ new.id = old.id
                  /\ new.id = call'.id
                  /\ new.createdAt = old.createdAt
                  /\ new.amount = call'.payload.amount
                  /\ new.category = call'.payload.category
                  /\ new.notes = call'.payload.notes
                  /\ new.updatedAt.tag = "Some"
                  /\ new.updatedAt.val >= old.createdAt
                  /\ old.updatedAt.tag = "Some" =>
                        new.updatedAt.val >= old.updatedAt.val
            /\ SameExcept(store, store', call'.id)]_vars

\* An Update has just succeeded, later than the record's creation, next to
\* another stored record.
C2_Witness ==
    /\ call.op = "updateFinancialRecord"
    /\ call.res.ok
    /\ call.res.val.updatedAt.val > call.res.val.createdAt
    /\ Cardinality(DOMAIN store) = 2

\* C3: a successful Delete(id) returns the removed record and leaves all
\* other records unchanged; right after it GetById(id) and Delete(id) fail
\* with NotFound; an absent id becomes present only by a Create that
\* produces it; and GetById or Delete of an absent id fails with NotFound.
C3_DeletedStaysNotFound ==
    [][/\ (call'.op = "deleteFinancialRecord" /\ call'.res.ok) =>
            /\ call'.id \in DOMAIN store
            /\ call'.res.val = store[call'.id]
            /\ call'.id \notin DOMAIN store'
            /\ SameExcept(store, store', call'.id)
            /\ IsNotFound(getFinancialRecord(store', call'.id))
            /\ IsNotFound(deleteFinancialRecord(store', call'.id).res)
       /\ \A id \in Ids :
            (id \notin DOMAIN store /\ id \in DOMAIN store') =>
                /\ call'.op = "addFinancialRecord"
                /\ call'.res.ok
                /\ call'.res.val.id = id
       /\ (/\ call'.op \in {"getFinancialRecord", "deleteFinancialRecord"}
           /\ call'.id \in Ids
           /\ call'.id \notin DOMAIN store) => IsNotFound(call'.res)]_vars

\* A Delete has just removed one of two stored records.
C3_Witness ==
    /\ call.op = "deleteFinancialRecord"
    /\ call.res.ok
    /\ Cardinality(DOMAIN store) = 1

\* What a successful RenameCategory returns and writes: exactly the records
\* whose category was oldCategory, each with category newCategory in the
\* result and in the store.
RenameReturnsMatched(s, s2, c) ==
    LET matched == {id \in DOMAIN s : s[id].category = c.oldCategory}
    IN /\ {r.id : r \in Range(c.res.val)} = matched
       /\ Len(c.res.val) = Cardinality(matched)
       /\ \A r \in Range(c.res.val) :
            /\ r.category = c.newCategory
            /\ r.id \in DOMAIN s2
            /\ s2[r.id] = r

\* C4 as stated: for any non-empty oldCategory and newCategory a successful
\* RenameCategory returns exactly the records whose category was
\* oldCategory, each with category newCategory in the result and in the
\* store, and the same call made again right afterwards fails with NotFound.
C4_RenameThenNotFound ==
    [][(call'.op = "updateExpenseCategory" /\ call'.res.ok) =>
        /\ RenameReturnsMatched(store, store', call')
        /\ IsNotFound(updateExpenseCategory(
               store', call'.oldCategory, call'.newCategory).res)]_vars

\* C4 amended: as C4, but the repeated call fails with NotFound when
\* newCategory differs from oldCategory; when the two names are equal the
\* repeated call succeeds again with the same records.
C4_RenameThenNotFoundIfDistinct ==
    [][(call'.op = "updateExpenseCategory" /\ call'.res.ok) =>
        LET again == updateExpenseCategory(
                         store', call'.oldCategory, call'.newCategory).res
        IN /\ call'.oldCategory # ""
           /\ call'.newCategory # ""
           /\ RenameReturnsMatched(store, store', call')
           /\ call'.oldCategory # call'.newCategory => IsNotFound(again)
           /\ call'.oldCategory = call'.newCategory => again = call'.res]_vars

\* A rename to a different name has just renamed two records.
C4_Witness ==
    /\ call.op = "updateExpenseCategory"
    /\ call.res.ok
    /\ call.oldCategory # call.newCategory
    /\ Len(call.res.val) = 2

\* C5: a successful RenameCategory changes only the category of the matched
\* records (id, amount, notes, createdAt and updatedAt stay as they were),
\* adds and removes no record and leaves every other record unchanged.
C5_RenameChangesOnlyCategory ==
    [][(call'.op = "updateExpenseCategory" /\ call'.res.ok) =>
        /\ DOMAIN store' = DOMAIN store
        /\ \A id \in DOMAIN store :
            IF store[id].category = call'.oldCategory
            THEN /\ store'[id].category = call'.newCategory
                 /\ store'[id].id = store[id].id
                 /\ store'[id].amount = store[id].amount
                 /\ store'[id].notes = store[id].notes
                 /\ store'[id].createdAt = store[id].createdAt
                 /\ store'[id].updatedAt = store[id].updatedAt
            ELSE store'[id] = store[id]]_vars

\* A rename has just renamed one record, updated before the current clock
\* value, and left the other stored record alone.
C5_Witness ==
    /\ call.op = "updateExpenseCategory"
    /\ call.res.ok
    /\ call.oldCategory # call.newCategory
    /\ Len(call.res.val) = 1
    /\ Cardinality(DOMAIN store) = 2
    /\ call.res.val[1].updatedAt.tag = "Some"
    /\ call.res.val[1].updatedAt.val < now

\* C6: whenever Summary succeeds, totalIncome is the sum of the positive
\* stored amounts, totalExpense the sum of the negative ones (kept
\* negative), netFlow their sum, and totalIncome >= 0 >= totalExpense.
C6_SummaryTotals ==
    (call.op = "getFinancialSummary" /\ call.res.ok) =>
        LET incomes == {id \in DOMAIN store : store[id].amount > 0}
            expenses == {id \in DOMAIN store : store[id].amount < 0}
            summary == call.res.val
        IN /\ summary.totalIncome = SumOver(store, incomes)
           /\ summary.totalExpense = SumOver(store, expenses)
           /\ summary.netFlow = summary.totalIncome + summary.totalExpense
           /\ summary.totalIncome >= 0
           /\ 0 >= summary.totalExpense

\* A Summary over one income and one expense that do not cancel.
C6_Witness ==
    /\ call.op = "getFinancialSummary"
    /\ call.res.ok
    /\ call.res.val.totalIncome > 0
    /\ call.res.val.totalExpense < 0
    /\ call.res.val.netFlow # 0

\* C7: ByDateRange with start > end fails with ValidationError; a
\* successful result is exactly the records with start <= createdAt <= end
\* (for start = end, those created at that instant); and with both bounds
\* given, start <= end and such a record stored, the call succeeds.
C7_DateRangeInclusive ==
    (call.op = "getFinancialRecordsByDateRange") =>
        LET inRange == {r \in StoredRecords(store) :
                           call.startDate <= r.createdAt /\ r.createdAt <= call.endDate}
        IN /\ call.startDate > call.endDate => IsValidationError(call.res)
           /\ call.res.ok => ListsExactly(call.res.val, inRange)
           /\ (call.res.ok /\ call.startDate = call.endDate) =>
                ListsExactly(call.res.val,
                    {r \in StoredRecords(store) : r.createdAt = call.startDate})
           /\ (/\ call.startDate # 0
               /\ call.endDate # 0
               /\ call.startDate <= call.endDate
               /\ inRange # {}) => call.res.ok

\* A range of a single instant has just returned one of two stored records.
C7_Witness ==
    /\ call.op = "getFinancialRecordsByDateRange"
    /\ call.res.ok
    /\ call.startDate = call.endDate
    /\ Len(call.res.val) = 1
    /\ Cardinality(DOMAIN store) = 2

\* C8: for a threshold > 0 a successful ExpensesGreaterThan returns exactly
\* the stored records with amount < 0 and abs(amount) > threshold (a record
\* with abs(amount) = threshold is not returned), and it succeeds when such
\* a record is stored; for a threshold <= 0 it fails with ValidationError.
C8_ExpensesStrictlyGreater ==
    (call.op = "getExpensesGreaterThan") =>
        LET greater == {r \in StoredRecords(store) :
                           r.amount < 0 /\ -r.amount > call.amount}
        IN /\ call.amount <= 0 => IsValidationError(call.res)
           /\ call.res.ok =>
                /\ call.amount > 0
                /\ ListsExactly(call.res.val, greater)
                /\ \A r \in Range(call.res.val) : Abs(r.amount) # call.amount
           /\ (call.amount > 0 /\ greater # {}) => call.res.ok

\* An expense equal to the threshold is stored and is left out of a
\* successful result.
C8_Witness ==
    /\ call.op = "getExpensesGreaterThan"
    /\ call.res.ok
    /\ \E r \in StoredRecords(store) : r.amount = -call.amount

\* C9: WithNotes returns exactly the records whose notes is present (a
\* present empty string included), WithoutNotes exactly those whose notes
\* is absent, and each fails with NotFound exactly when its side is empty.
C9_NotesPartition ==
    LET present == {r \in StoredRecords(store) : r.notes.tag = "Some"}
        absent == {r \in StoredRecords(store) : r.notes.tag = "None"}
    IN /\ (call.op = "getFinancialRecordsWithNotes") =>
            IF present = {} THEN IsNotFound(call.res)
            ELSE call.res.ok /\ ListsExactly(call.res.val, present)
       /\ (call.op = "getFinancialRecordsWithoutNotes") =>
            IF absent = {} THEN IsNotFound(call.res)
            ELSE call.res.ok /\ ListsExactly(call.res.val, absent)

\* The records a list-returning query is specified to return.
Matching(s, c) ==
    LET all == StoredRecords(s)
    IN CASE c.op = "getFinancialRecords" -> all
         [] c.op = "getFinancialRecordsByCategory" ->
                {r \in all : r.category = c.category}
         [] c.op = "getFinancialRecordsByDateRange" ->
                {r \in all : c.startDate <= r.createdAt /\ r.createdAt <= c.endDate}
         [] c.op = "getExpensesGreaterThan" ->
                {r \in all : r.amount < 0 /\ -r.amount > c.amount}
         [] c.op = "getIncomesLessThan" ->
                {r \in all : r.amount > 0 /\ r.amount < c.amount}
         [] c.op = "getFinancialRecordsWithNotes" ->
                {r \in all : r.notes.tag = "Some"}
         [] c.op = "getFinancialRecordsWithoutNotes" ->
                {r \in all : r.notes.tag = "None"}

\* The arguments of a list-returning query are valid.
ValidArguments(c) ==
    CASE c.op = "getFinancialRecordsByCategory" -> c.category # ""
      [] c.op = "getFinancialRecordsByDateRange" ->
            c.startDate # 0 /\ c.endDate # 0 /\ c.startDate <= c.endDate
      [] c.op \in {"getExpensesGreaterThan", "getIncomesLessThan"} -> c.amount > 0
      [] OTHER -> TRUE

ListQueries ==
    {"getFinancialRecords", "getFinancialRecordsByCategory",
     "getFinancialRecordsByDateRange", "getExpensesGreaterThan",
     "getIncomesLessThan", "getFinancialRecordsWithNotes",
     "getFinancialRecordsWithoutNotes"}

\* C10: a list-returning query called with valid arguments when no stored
\* record matches returns a NotFound-class error, and whenever it succeeds
\* the returned sequence is non-empty.
C10_NoEmptySuccess ==
    (call.op \in ListQueries) =>
        /\ (ValidArguments(call) /\ Matching(store, call) = {}) => IsNotFound(call.res)
        /\ call.res.ok => call.res.val # <<>>

\* The calendar year and month (1..12) of clock tick t.
CalendarYear(t) == 2024 + (t - 1) \div 12
CalendarMonth(t) == ((t - 1) % 12) + 1

\* C11: when an expense record exists, AverageMonthlyExpenses returns the
\* sum of the absolute expense amounts divided by monthDiff, where
\* monthDiff = (yearLatest - yearEarliest) * 12 + (monthLatest -
\* monthEarliest) + 1 over the calendar year and month of the earliest and
\* latest createdAt among the expense records, and monthDiff >= 1.
C11_AverageOverMonthSpan ==
    (call.op = "getAverageMonthlyExpenses") =>
        LET expenses == {id \in DOMAIN store : store[id].amount < 0}
        IN expenses # {} =>
            LET times == {store[id].createdAt : id \in expenses}
                earliest == CHOOSE x \in times : \A y \in times : x <= y
                latest == CHOOSE x \in times : \A y \in times : x >= y
                monthDiff == (CalendarYear(latest) - CalendarYear(earliest)) * 12
                             + (CalendarMonth(latest) - CalendarMonth(earliest)) + 1
            IN /\ call.res.ok
               /\ monthDiff >= 1
               /\ call.res.val.num * monthDiff =
                     (-SumOver(store, expenses)) * call.res.val.den

\* C12: Create and Update reject a payload whose amount is zero or whose
\* category is empty with ValidationError; Update does so whether or not
\* the id is known, and Update with a valid payload and an id that is not
\* in the store returns NotFound.
C12_PayloadValidatedFirst ==
    /\ (call.op = "addFinancialRecord" /\ ~ValidPayload(call.payload)) =>
            IsValidationError(call.res)
    /\ (call.op = "updateFinancialRecord" /\ ~ValidPayload(call.payload)) =>
            IsValidationError(call.res)
    /\ (/\ call.op = "updateFinancialRecord"
        /\ ValidPayload(call.payload)
        /\ call.id \notin DOMAIN store) => IsNotFound(call.res)

\* An Update with an invalid payload and an unknown id has just been
\* answered, with other records stored.
C12_Witness ==
    /\ call.op = "updateFinancialRecord"
    /\ ~ValidPayload(call.payload)
    /\ call.id \in Ids
    /\ call.id \notin DOMAIN store
    /\ store # << >>
    /\ ~call.res.ok

\* The calls whose arguments alone are invalid.
InvalidArguments(c) ==
    \/ c.op \in {"getFinancialRecord", "deleteFinancialRecord"} /\ c.id = EmptyId
    \/ c.op = "getFinancialRecordsByCategory" /\ c.category = ""
    \/ c.op = "updateExpenseCategory"
        /\ (c.oldCategory = "" \/ c.newCategory = "")
    \/ c.op = "getFinancialRecordsByDateRange"
        /\ (c.startDate = 0 \/ c.endDate = 0 \/ c.startDate > c.endDate)
    \/ c.op \in {"getExpensesGreaterThan", "getIncomesLessThan"} /\ c.amount <= 0
    \/ c.op = "forecastFutureExpenses" /\ c.monthsAhead <= 0
    \/ c.op = "exportFinancialData"
        /\ c.format \notin {"json", "JSON", "Json"}

\* C13: in every reachable state, the empty store included, a call with
\* an invalid argument (empty id, empty category, missing or reversed date
\* bound, amount <= 0, monthsAhead <= 0, a format that is not "json" in any
\* letter case) is answered with ValidationError and never with a
\* NotFound-class error.
C13_ValidationBeforeStore ==
    InvalidArguments(call) =>
        IsValidationError(call.res) /\ ~IsNotFound(call.res)

\* An export in an unsupported format has just been refused on an empty
\* store.
C13_Witness ==
    /\ call.op = "exportFinancialData"
    /\ call.format = "csv"
    /\ store = << >>
    /\ IsValidationError(call.res)

UpdateCalls ==
    {"addFinancialRecord", "updateFinancialRecord", "updateExpenseCategory",
     "deleteFinancialRecord"}

\* C14: a call that returns an error leaves the store as it was; a read
\* call (list, get, the filters, summary, the averages, forecast, export)
\* leaves the store as it was whether it succeeds or fails; the store
\* changes only in a successful Create, Update, Delete or RenameCategory.
C14_OnlySuccessfulUpdatesWrite ==
    [][/\ (call = Idle /\ call' # Idle /\ ~call'.res.ok) => store' = store
       /\ (call = Idle /\ call' # Idle /\ call'.op \notin UpdateCalls) =>
              store' = store
       /\ (store' # store) =>
              /\ call = Idle
              /\ call' # Idle
              /\ call'.op \in UpdateCalls
              /\ call'.res.ok]_vars

\* An update call has just failed on a store that holds a record.
C14_Witness ==
    /\ call.op \in UpdateCalls
    /\ ~call.res.ok
    /\ store # << >>

\* C15: after any sequence of Create, Update, Delete and RenameCategory
\* calls from the empty store, every stored record has a non-zero amount
\* and a non-empty category.
C15_StoredRecordsValid ==
    \A id \in DOMAIN store :
        store[id].amount # 0 /\ store[id].category # ""

\* Two records are stored after a rename that changed one of them,
\* which had been updated before.
C15_Witness ==
    /\ call.op = "updateExpenseCategory"
    /\ call.res.ok
    /\ Cardinality(DOMAIN store) = 2
    /\ \E id \in DOMAIN store :
        /\ store[id].updatedAt # OptNone
        /\ store[id].category = call.newCategory
        /\ call.oldCategory # call.newCategory

\* The ids of the listed records, in the order of the list.
ListedIds(res) == IF res.ok THEN [i \in 1..Len(res.val) |-> res.val[i].id] ELSE << >>

\* An Update or RenameCategory leaves every record at its place in the list.
PositionsKept ==
    (/\ call = Idle
     /\ call' # Idle
     /\ call'.op \in {"updateFinancialRecord", "updateExpenseCategory"}) =>
        ListedIds(getFinancialRecords(store')) = ListedIds(getFinancialRecords(store))

\* C16 as stated: ListAll returns the records in the order of their
\* creation (of two stored records the one created earlier comes first),
\* and Update or RenameCategory of a record does not change its position.
C16_ListInCreationOrder ==
    [][/\ (call = Idle /\ call'.op = "getFinancialRecords" /\ call'.res.ok) =>
              \A i, j \in 1..Len(call'.res.val) :
                  call'.res.val[i].createdAt < call'.res.val[j].createdAt => i < j
       /\ PositionsKept]_vars

\* C16, amended: ListAll returns every stored record once, in ascending
\* order of the ids (the order of the map's keys, which the random ids make
\* independent of the order of creation), and Update or RenameCategory of a
\* record does not change its position.
C16_ListInKeyOrder ==
    [][/\ (call = Idle /\ call'.op = "getFinancialRecords" /\ call'.res.ok) =>
              LET records == call'.res.val
              IN /\ Len(records) = Cardinality(DOMAIN store)
                 /\ \A i \in 1..Len(records) :
                        /\ records[i].id \in DOMAIN store
                        /\ records[i] = store[records[i].id]
                 /\ \A i, j \in 1..Len(records) :
                        i < j => records[i].id < records[j].id
       /\ PositionsKept]_vars

\* ListAll has just listed a record created later before one created
\* earlier, the later one having been updated since.
C16_Witness ==
    /\ call.op = "getFinancialRecords"
    /\ call.res.ok
    /\ Len(call.res.val) = 2
    /\ call.res.val[1].createdAt > call.res.val[2].createdAt
    /\ call.res.val[1].updatedAt # OptNone

\* C17: in every reachable state Summary fails, with its nothing to
\* summarize error, exactly when the store is empty, which is exactly when
\* ListAll fails; a store whose incomes and expenses cancel to a zero
\* netFlow is summarized successfully.
C17_SummaryFailsIffEmpty ==
    LET summary == getFinancialSummary(store)
    IN /\ ~summary.ok <=> store = << >>
       /\ ~summary.ok <=> ~getFinancialRecords(store).ok
       /\ ~summary.ok => summary.err = "No financial records available to summarize."
       /\ call.op = "getFinancialSummary" => call.res = summary

\* Summary has just succeeded on a store whose amounts cancel.
C17_Witness ==
    /\ call.op = "getFinancialSummary"
    /\ call.res.ok
    /\ call.res.val.netFlow = 0
    /\ store # << >>

====
